---- MODULE Spec2Model ----
(***************************************************************************)
(* State-machine model of src/server.py: the bridge that turns an OpenAPI  *)
(* document into tool descriptors (create_tools_from_openapi) and a tool   *)
(* call back into one HTTP request (call_api_operation), wrapped by the    *)
(* list_tools / call_tool handlers that main() registers after startup.    *)
(*                                                                         *)
(* Python values are modelled structurally:                                *)
(*   - a str that the code inspects (paths, names, content types) is a     *)
(*     sequence of one-character strings, so that str.replace and the      *)
(*     substring test "in" are computed, not assumed;                      *)
(*   - a dict is a function; `k in d` is k \in DOMAIN d; d.get(k, dflt) is *)
(*     Get(d, k, dflt); the empty dict is the empty function << >>;        *)
(*   - an ordered dict the code iterates (paths, content) is a sequence of *)
(*     <<key, value>> pairs with distinct keys;                            *)
(*   - None is NoneVal;                                                    *)
(*   - a JSON value is a tagged record (t = "str", "int", "dict");         *)
(*   - an f-string result that is only displayed is a sequence of pieces,  *)
(*     L(literal) or C(characters).                                        *)
(***************************************************************************)
EXTENDS Integers, Sequences, FiniteSets, TLC

\* Number of tool calls the protocol front end may have in flight at once.
NumInv == 2
\* Number of list_tools results the model remembers.
MaxListings == 2

VARIABLES
    main_pc,       \* position of main(): authenticate, initialize, fetch, serving, exited
    bearer_token,  \* global bearer_token
    api_client,    \* global api_client
    openapi_spec,  \* global openapi_spec
    listings,      \* results returned by list_tools so far (oldest first)
    pc,            \* per call: phase of call_tool / call_api_operation
    call_name,     \* per call: parameter operation_id
    call_args,     \* per call: parameter arguments (after `arguments or {}`)
    call_resp,     \* per call: the remote response the call received
    resolved,      \* per call: the (path, method, operation) the scan stopped at
    sent,          \* per call: HTTP requests issued by this call
    result         \* per call: the list[TextContent] call_tool returned

vars == <<main_pc, bearer_token, api_client, openapi_spec, listings,
          pc, call_name, call_args, call_resp, resolved, sent, result>>

Slots == 1..NumInv

-----------------------------------------------------------------------------
\* Python values

NoneVal == [isNone |-> TRUE]

EmptyDict == << >>

\* Python truthiness of None, a dict, or an object without __bool__/__len__.
Truthy(v) == v # NoneVal /\ DOMAIN v # {}

Get(d, k, dflt) == IF k \in DOMAIN d THEN d[k] ELSE dflt

Put(d, k, v) == [x \in DOMAIN d \cup {k} |-> IF x = k THEN v ELSE d[x]]

L(s) == [lit |-> s]
C(cs) == [chars |-> cs]

VStr(cs) == [t |-> "str", s |-> cs]
VInt(n) == [t |-> "int", n |-> n]
VDict == [t |-> "dict", d |-> EmptyDict]

DigitChar(d) == <<"0", "1", "2", "3", "4", "5", "6", "7", "8", "9">>[d + 1]

RECURSIVE Digits(_)
Digits(n) == IF n < 10 THEN <<DigitChar(n)>> ELSE Digits(n \div 10) \o <<DigitChar(n % 10)>>

\* str(value)
Str(v) ==
    CASE v.t = "str" -> v.s
      [] v.t = "int" -> IF v.n < 0 THEN <<"-">> \o Digits(-v.n) ELSE Digits(v.n)
      [] v.t = "dict" -> <<"{", "}">>

\* json.dumps(value, indent=2) of the empty object
JsonDumps(v) == <<"{", "}">>

IsPrefix(p, s) == Len(p) <= Len(s) /\ SubSeq(s, 1, Len(p)) = p

\* s.replace(old, new) for a non-empty old: left to right, non-overlapping
RECURSIVE Replace(_, _, _)
Replace(s, old, new) ==
    IF Len(s) < Len(old) THEN s
    ELSE IF IsPrefix(old, s)
         THEN new \o Replace(SubSeq(s, Len(old) + 1, Len(s)), old, new)
         ELSE <<Head(s)>> \o Replace(Tail(s), old, new)

\* sub in s
Contains(s, sub) == \E k \in 0..(Len(s) - Len(sub)) : SubSeq(s, k + 1, k + Len(sub)) = sub

-----------------------------------------------------------------------------
\* Strings used by the documents and the calls

S_slash == <<"/">>
S_underscore == <<"_">>
S_id == <<"i", "d">>
S_filter == <<"f", "i", "l", "t", "e", "r">>
S_a == <<"a">>
S_b == <<"b">>
S_requestBody == <<"r", "e", "q", "u", "e", "s", "t", "B", "o", "d", "y">>
S_42 == <<"4", "2">>
S_braceB == <<"{", "b", "}">>
S_ok == <<"o", "k">>
S_killBeacon == <<"k", "i", "l", "l", "B", "e", "a", "c", "o", "n">>
S_getTarget == <<"g", "e", "t", "T", "a", "r", "g", "e", "t">>
S_move == <<"m", "o", "v", "e">>
S_edit == <<"e", "d", "i", "t">>
S_nosuch == <<"n", "o", "s", "u", "c", "h">>
\* "get__beacons_{id}"
S_synthGet == <<"g", "e", "t", "_", "_", "b", "e", "a", "c", "o", "n", "s", "_", "{", "i", "d", "}">>
\* "get__beacons__id_"
S_claimedGet == <<"g", "e", "t", "_", "_", "b", "e", "a", "c", "o", "n", "s", "_", "_", "i", "d", "_">>
S_beaconsId == <<"/", "b", "e", "a", "c", "o", "n", "s", "/", "{", "i", "d", "}">>
S_beaconsIdKill == S_beaconsId \o <<"/", "k", "i", "l", "l">>
\* "/beacons/42/kill"
S_beacons42Kill == <<"/", "b", "e", "a", "c", "o", "n", "s", "/", "4", "2", "/", "k", "i", "l", "l">>
S_targets == <<"/", "t", "a", "r", "g", "e", "t", "s">>
S_xab == <<"/", "x", "/", "{", "a", "}", "/", "{", "b", "}">>
S_appJson == <<"a", "p", "p", "l", "i", "c", "a", "t", "i", "o", "n", "/", "j", "s", "o", "n">>
S_appJsonUtf8 == S_appJson \o <<";", "c", "h", "a", "r", "s", "e", "t", "=", "u", "t", "f", "-", "8">>
S_appXml == <<"a", "p", "p", "l", "i", "c", "a", "t", "i", "o", "n", "/", "x", "m", "l">>

-----------------------------------------------------------------------------
\* OpenAPI documents the remote service may answer GET /v3/api-docs with

P_idPath == [name |-> S_id, in |-> "path", required |-> TRUE,
             schema |-> [type |-> "string"], description |-> "Beacon id"]
P_idPathBare == [name |-> S_id, in |-> "path", required |-> TRUE]
P_filterQuery == [name |-> S_filter, in |-> "query", schema |-> [type |-> "string"]]
P_filterQueryInt == [name |-> S_filter, in |-> "query", required |-> FALSE,
                     schema |-> [type |-> "integer"]]
P_idHeader == [name |-> S_id, in |-> "header", required |-> TRUE]
P_aPath == [name |-> S_a, in |-> "path"]
P_bPath == [name |-> S_b, in |-> "path", required |-> TRUE]
P_aQuery == [name |-> S_a, in |-> "query", required |-> TRUE, schema |-> [type |-> "integer"]]
P_bodyQuery == [name |-> S_requestBody, in |-> "query"]

JsonSchemaObj == [schema |-> [type |-> "object"]]

Op_kill == [operationId |-> S_killBeacon, summary |-> "Kill a beacon",
            parameters |-> <<P_idPath>>,
            requestBody |-> [required |-> TRUE, content |-> << <<S_appJson, JsonSchemaObj>> >>]]
Op_getBeacon == [summary |-> "Get a beacon", description |-> "Returns one beacon",
                 parameters |-> <<P_idPathBare, P_filterQuery>>]
Op_delBeacon == [operationId |-> S_killBeacon, parameters |-> <<P_idPath>>]
Op_getTarget == [operationId |-> S_getTarget, parameters |-> <<P_filterQueryInt, P_idHeader>>]
Op_move == [operationId |-> S_move, summary |-> "Move",
            parameters |-> <<P_aPath, P_bPath, P_aQuery>>,
            requestBody |-> [required |-> TRUE,
                             content |-> << <<S_appJson, [example |-> "none"]>> >>]]
Op_edit == [operationId |-> S_edit,
            requestBody |-> [required |-> TRUE,
                             content |-> << <<S_appXml, JsonSchemaObj>>,
                                            <<S_appJson, JsonSchemaObj>>,
                                            <<S_appJsonUtf8, JsonSchemaObj>> >>]]
Op_peek == [parameters |-> <<P_bodyQuery>>,
            requestBody |-> [content |-> << <<S_appXml, JsonSchemaObj>> >>]]
Op_putTarget == [operationId |-> S_edit, summary |-> "Edit a target"]
Op_postTarget == [operationId |-> S_getTarget, requestBody |-> [required |-> TRUE]]

DocEmpty == EmptyDict
DocNoPaths == [openapi |-> "3.0.1"]
DocEmptyPaths == [openapi |-> "3.0.1", paths |-> << >>]
DocBeacons ==
    [openapi |-> "3.0.1",
     paths |-> << <<S_beaconsIdKill, [post |-> Op_kill]>>,
                  <<S_beaconsId, [get |-> Op_getBeacon, delete |-> Op_delBeacon]>>,
                  <<S_targets, [get |-> Op_getTarget, put |-> Op_putTarget]>> >>]
DocEdge ==
    [paths |-> << <<S_xab, [get |-> Op_peek, post |-> Op_postTarget, put |-> Op_move,
                            patch |-> Op_edit]>>,
                  <<S_targets, [get |-> Op_getTarget]>> >>]

Documents == {DocEmpty, DocNoPaths, DocEmptyPaths, DocBeacons, DocEdge}

\* response.json() of the spec fetch: a document, or JSON null
SpecPayloads == Documents \cup {NoneVal}

-----------------------------------------------------------------------------
\* create_tools_from_openapi

HttpMethodsSwapped == <<"get", "put", "post", "delete", "patch">>

HttpMethods == <<"get", "post", "put", "delete", "patch">>

MethodChars(m) ==
    CASE m = "get" -> <<"g", "e", "t">>
      [] m = "post" -> <<"p", "o", "s", "t">>
      [] m = "put" -> <<"p", "u", "t">>
      [] m = "delete" -> <<"d", "e", "l", "e", "t", "e">>
      [] m = "patch" -> <<"p", "a", "t", "c", "h">>

\* method.upper()
MethodUpper(m) ==
    CASE m = "get" -> "GET"
      [] m = "post" -> "POST"
      [] m = "put" -> "PUT"
      [] m = "delete" -> "DELETE"
      [] m = "patch" -> "PATCH"

ToolNameNoMethod(method, path, operation) ==
    Get(operation, "operationId", Replace(path, S_slash, S_underscore))

\* operation.get("operationId", f"{method}_{path.replace('/', '_')}")
ToolName(method, path, operation) ==
    Get(operation, "operationId",
        MethodChars(method) \o S_underscore \o Replace(path, S_slash, S_underscore))

\* f"{summary}\n\nPath: {method.upper()} {path}\n{description}"
ToolDescription(method, path, operation) ==
    LET summary == Get(operation, "summary", "")
        description == Get(operation, "description", summary)
    IN  <<L(summary), L("\n\nPath: "), L(MethodUpper(method)), L(" "), C(path),
          L("\n"), L(description)>>

EmptySchemaAcc == [properties |-> EmptyDict, required |-> << >>]

ParamPropertyObjectDefault(param) ==
    [type |-> Get(Get(param, "schema", EmptyDict), "type", "object"),
     description |-> Get(param, "description", "")]

ParamProperty(param) ==
    [type |-> Get(Get(param, "schema", EmptyDict), "type", "string"),
     description |-> Get(param, "description", "")]

\* for param in operation["parameters"]: ...
RECURSIVE SchemaParams(_, _, _)
SchemaParams(params, k, acc) ==
    IF k > Len(params) THEN acc
    ELSE LET param == params[k]
             param_name == param.name
         IN  SchemaParams(params, k + 1,
                 [properties |-> Put(acc.properties, param_name, ParamProperty(param)),
                  required |-> IF Get(param, "required", FALSE)
                               THEN Append(acc.required, param_name)
                               ELSE acc.required])

\* for content_type, content_data in request_body["content"].items(): ...
RECURSIVE SchemaContent(_, _, _, _)
SchemaContent(request_body, content, k, acc) ==
    IF k > Len(content) THEN acc
    ELSE LET content_type == content[k][1]
             content_data == content[k][2]
         IN  IF Contains(content_type, S_appJson) /\ "schema" \in DOMAIN content_data
             THEN SchemaContent(request_body, content, k + 1,
                      [properties |-> Put(acc.properties, S_requestBody,
                                          [type |-> "object",
                                           description |-> "Request body (JSON)"]),
                       required |-> IF Get(request_body, "required", FALSE)
                                    THEN Append(acc.required, S_requestBody)
                                    ELSE acc.required])
             ELSE SchemaContent(request_body, content, k + 1, acc)

InputSchema(operation) ==
    LET afterParams ==
            IF "parameters" \in DOMAIN operation
            THEN SchemaParams(operation.parameters, 1, EmptySchemaAcc)
            ELSE EmptySchemaAcc
        afterBody ==
            IF "requestBody" \in DOMAIN operation
               /\ "content" \in DOMAIN operation.requestBody
            THEN SchemaContent(operation.requestBody, operation.requestBody.content,
                               1, afterParams)
            ELSE afterParams
    IN  IF afterBody.required # << >>
        THEN [type |-> "object", properties |-> afterBody.properties,
              required |-> afterBody.required]
        ELSE [type |-> "object", properties |-> afterBody.properties]

MakeTool(method, path, operation) ==
    [name |-> ToolName(method, path, operation),
     description |-> ToolDescription(method, path, operation),
     inputSchema |-> InputSchema(operation)]

\* for method in ["get", "post", "put", "delete", "patch"]: ...
RECURSIVE ToolsOfPath(_, _, _)
ToolsOfPath(path, path_item, k) ==
    IF k > Len(HttpMethods) THEN << >>
    ELSE (IF HttpMethods[k] \in DOMAIN path_item
          THEN <<MakeTool(HttpMethods[k], path, path_item[HttpMethods[k]])>>
          ELSE << >>)
         \o ToolsOfPath(path, path_item, k + 1)

\* for path, path_item in openapi_spec["paths"].items(): ...
RECURSIVE ToolsOfPaths(_, _)
ToolsOfPaths(paths, k) ==
    IF k > Len(paths) THEN << >>
    ELSE ToolsOfPath(paths[k][1], paths[k][2], 1) \o ToolsOfPaths(paths, k + 1)

create_tools_from_openapi ==
    IF ~Truthy(openapi_spec) \/ "paths" \notin DOMAIN openapi_spec
    THEN << >>
    ELSE ToolsOfPaths(openapi_spec.paths, 1)

-----------------------------------------------------------------------------
\* Exceptions and results

Exception(message) == [exc |-> "Exception", message |-> message]
KeyError(key) == [exc |-> "KeyError", key |-> key]

\* str(e)
StrExc(e) ==
    IF e.exc = "KeyError" THEN <<L("'"), L(e.key), L("'")>> ELSE e.message

Raised(e) == [raised |-> TRUE, exc |-> e]
Returned(v) == [raised |-> FALSE, value |-> v]

NotInitializedError == Exception(<<L("API client or OpenAPI spec not initialized")>>)
OperationNotFoundError(operation_id) ==
    Exception(<<L("Operation "), C(operation_id), L(" not found in OpenAPI spec")>>)
RemoteCallError(detail) == Exception(<<L("API call failed: "), L(detail)>>)

-----------------------------------------------------------------------------
\* call_api_operation

ResolveMethods == <<"get", "post", "put", "delete", "patch">>

\* operation.get("operationId") == operation_id, operation_id being a str
OperationIdIs(operation, operation_id) ==
    "operationId" \in DOMAIN operation /\ operation.operationId = operation_id

RECURSIVE FindInPath(_, _, _, _)
FindInPath(path, path_item, k, operation_id) ==
    IF k > Len(ResolveMethods) THEN NoneVal
    ELSE LET method == ResolveMethods[k]
         IN  IF method \in DOMAIN path_item /\ OperationIdIs(path_item[method], operation_id)
             THEN [path |-> path, method |-> method, operation |-> path_item[method]]
             ELSE FindInPath(path, path_item, k + 1, operation_id)

\* the scan of lines 214-220: the first operation carrying operation_id, or None
RECURSIVE FindOperation(_, _, _)
FindOperation(paths, k, operation_id) ==
    IF k > Len(paths) THEN NoneVal
    ELSE LET here == FindInPath(paths[k][1], paths[k][2], 1, operation_id)
         IN  IF here # NoneVal THEN here
             ELSE FindOperation(paths, k + 1, operation_id)

Placeholder(param_name) == <<"{">> \o param_name \o <<"}">>

ParamIn(param) == Get(param, "in", "None")

\* for param in operation["parameters"]: ...   (lines 228-236)
RECURSIVE ExtractParams(_, _, _, _)
ExtractParams(params, k, arguments, acc) ==
    IF k > Len(params) THEN acc
    ELSE LET param == params[k]
             param_name == param.name
             param_in == ParamIn(param)
         IN  ExtractParams(params, k + 1, arguments,
                 IF param_name \in DOMAIN arguments
                 THEN IF param_in = "path"
                      THEN [acc EXCEPT !.actual_path =
                               Replace(@, Placeholder(param_name), Str(arguments[param_name]))]
                      ELSE IF param_in = "query"
                           THEN [acc EXCEPT !.request_params =
                                    Put(@, param_name, arguments[param_name])]
                           ELSE acc
                 ELSE acc)

BuildParamsFirstOnly(found, arguments) ==
    LET operation == found.operation
        start == [actual_path |-> found.path, request_params |-> EmptyDict]
        built == IF "parameters" \in DOMAIN operation
                 THEN ExtractParams(SubSeq(operation.parameters, 1, 1), 1, arguments, start)
                 ELSE start
    IN  [actual_path |-> built.actual_path,
         request_params |-> built.request_params,
         request_body |-> IF S_requestBody \in DOMAIN arguments
                          THEN arguments[S_requestBody] ELSE NoneVal]

\* lines 222-240: actual_path, request_params, request_body
BuildParams(found, arguments) ==
    LET operation == found.operation
        start == [actual_path |-> found.path, request_params |-> EmptyDict]
        built == IF "parameters" \in DOMAIN operation
                 THEN ExtractParams(operation.parameters, 1, arguments, start)
                 ELSE start
    IN  [actual_path |-> built.actual_path,
         request_params |-> built.request_params,
         request_body |-> IF S_requestBody \in DOMAIN arguments
                          THEN arguments[S_requestBody] ELSE NoneVal]

\* lines 244-253: the api_client call made for the method
HttpRequest(method, built) ==
    IF method \in {"post", "put", "patch"}
    THEN [method |-> method, url |-> built.actual_path,
          params |-> built.request_params, json |-> built.request_body]
    ELSE [method |-> method, url |-> built.actual_path,
          params |-> built.request_params]

\* Remote responses: a 2xx JSON body, a 2xx non-JSON body, a 5xx, a transport failure
R_jsonObj == [status |-> "200", json |-> VDict]
R_jsonStr == [status |-> "200", json |-> VStr(S_ok)]
R_text == [status |-> "200", text |-> S_ok]
R_500 == [status |-> "500", text |-> S_ok]
R_timeout == [transport_error |-> "ReadTimeout"]

Responses == {R_jsonObj, R_jsonStr, R_text, R_500, R_timeout}

\* lines 243-264: what the awaited call and the code after it produce
DispatchOutcome(response) ==
    IF "transport_error" \in DOMAIN response
    THEN Raised(RemoteCallError(response.transport_error))
    ELSE IF response.status # "200"
         THEN Raised(RemoteCallError(response.status))
         ELSE IF "json" \in DOMAIN response
              THEN Returned(response.json)
              ELSE Returned(VStr(response.text))

-----------------------------------------------------------------------------
\* call_tool

CallToolResultPropagating(outcome) ==
    IF outcome.raised
    THEN << >>
    ELSE << [type |-> "text",
             text |-> <<C(IF outcome.value.t \in {"dict", "list"}
                          THEN JsonDumps(outcome.value)
                          ELSE Str(outcome.value))>>] >>

\* lines 306-321
CallToolResult(outcome) ==
    IF outcome.raised
    THEN << [type |-> "text", text |-> <<L("Error: ")>> \o StrExc(outcome.exc)] >>
    ELSE << [type |-> "text",
             text |-> <<C(IF outcome.value.t \in {"dict", "list"}
                          THEN JsonDumps(outcome.value)
                          ELSE Str(outcome.value))>>] >>

\* Argument bags the front end may pass (None when the client sends none)
B_id42 == (S_id :> VStr(S_42))
B_full == (S_id :> VInt(7)) @@ (S_filter :> VStr(S_42)) @@ (S_requestBody :> VDict)
B_ab == (S_a :> VStr(S_braceB)) @@ (S_b :> VStr(S_42)) @@ (S_requestBody :> VDict)

ArgumentBags == {NoneVal, B_id42, B_full, B_ab}

ToolNames == {S_killBeacon, S_getTarget, S_move, S_edit, S_synthGet, S_nosuch}

Terminal == {"NotInitialized", "Crashed", "NotFound", "Success", "RemoteCallError"}

-----------------------------------------------------------------------------
\* State machine

Init ==
    /\ main_pc = "authenticate"
    /\ bearer_token = NoneVal
    /\ api_client = NoneVal
    /\ openapi_spec = NoneVal
    /\ listings = << >>
    /\ pc = [i \in Slots |-> "Idle"]
    /\ call_name = [i \in Slots |-> NoneVal]
    /\ call_args = [i \in Slots |-> NoneVal]
    /\ call_resp = [i \in Slots |-> NoneVal]
    /\ resolved = [i \in Slots |-> NoneVal]
    /\ sent = [i \in Slots |-> << >>]
    /\ result = [i \in Slots |-> NoneVal]

callVars == <<pc, call_name, call_args, call_resp, resolved, sent, result>>
globalVars == <<bearer_token, api_client, openapi_spec>>

\* main() step 1, authenticate() succeeding
AuthenticateOk ==
    /\ main_pc = "authenticate"
    /\ bearer_token' = [access_token |-> "token"]
    /\ main_pc' = "initialize"
    /\ UNCHANGED <<api_client, openapi_spec, listings, callVars>>

\* main() step 1, authenticate() raising: sys.exit(1)
AuthenticateFails ==
    /\ main_pc = "authenticate"
    /\ main_pc' = "exited"
    /\ UNCHANGED <<globalVars, listings, callVars>>

\* main() step 2
InitializeApiClient ==
    /\ main_pc = "initialize"
    /\ api_client' = [base_url |-> "BASE_URL", authorization |-> bearer_token]
    /\ main_pc' = "fetch"
    /\ UNCHANGED <<bearer_token, openapi_spec, listings, callVars>>

\* main() step 3, the GET answering with a JSON payload: the payload is stored,
\* then the operation count raises TypeError on JSON null (sys.exit(1))
FetchOpenapiSpec(payload) ==
    /\ main_pc = "fetch"
    /\ Truthy(api_client)
    /\ openapi_spec' = payload
    /\ main_pc' = IF payload = NoneVal THEN "exited" ELSE "serving"
    /\ UNCHANGED <<bearer_token, api_client, listings, callVars>>

\* main() step 3, the GET failing: sys.exit(1)
FetchFails ==
    /\ main_pc = "fetch"
    /\ main_pc' = "exited"
    /\ UNCHANGED <<globalVars, listings, callVars>>

\* list_tools handler; the model keeps the first `limit` results
ListTools(limit) ==
    /\ main_pc = "serving"
    /\ Len(listings) < limit
    /\ listings' = Append(listings, create_tools_from_openapi)
    /\ UNCHANGED <<main_pc, globalVars, callVars>>

ArgumentsOfShared(i) == call_args[1]

\* the parameter `arguments` of the running call_api_operation frame
ArgumentsOf(i) == call_args[i]

\* call_tool entered: `arguments or {}`, then the guard of call_api_operation
CallTool(i, name, arguments) ==
    /\ main_pc = "serving"
    /\ pc[i] = "Idle"
    /\ call_name' = [call_name EXCEPT ![i] = name]
    /\ call_args' = [call_args EXCEPT ![i] = IF Truthy(arguments) THEN arguments ELSE EmptyDict]
    /\ IF ~Truthy(api_client) \/ ~Truthy(openapi_spec)
       THEN /\ pc' = [pc EXCEPT ![i] = "NotInitialized"]
            /\ result' = [result EXCEPT ![i] = CallToolResult(Raised(NotInitializedError))]
       ELSE /\ pc' = [pc EXCEPT ![i] = "Resolving"]
            /\ UNCHANGED result
    /\ UNCHANGED <<main_pc, globalVars, listings, call_resp, resolved, sent>>

\* the scan for the operation
Resolve(i) ==
    /\ pc[i] = "Resolving"
    /\ IF "paths" \notin DOMAIN openapi_spec
       THEN /\ pc' = [pc EXCEPT ![i] = "Crashed"]
            /\ result' = [result EXCEPT ![i] = CallToolResult(Raised(KeyError("paths")))]
            /\ UNCHANGED resolved
       ELSE LET found == FindOperation(openapi_spec.paths, 1, call_name[i])
            IN  IF found = NoneVal
                THEN /\ pc' = [pc EXCEPT ![i] = "NotFound"]
                     /\ result' = [result EXCEPT ![i] =
                            CallToolResult(Raised(OperationNotFoundError(call_name[i])))]
                     /\ UNCHANGED resolved
                ELSE /\ pc' = [pc EXCEPT ![i] = "ParamBuilding"]
                     /\ resolved' = [resolved EXCEPT ![i] = found]
                     /\ UNCHANGED result
    /\ UNCHANGED <<main_pc, globalVars, listings, call_name, call_args, call_resp, sent>>

\* the arguments are partitioned and the request is issued (the await)
Dispatch(i) ==
    /\ pc[i] = "ParamBuilding"
    /\ sent' = [sent EXCEPT ![i] =
                  Append(@, HttpRequest(resolved[i].method,
                                        BuildParams(resolved[i], ArgumentsOf(i))))]
    /\ pc' = [pc EXCEPT ![i] = "Dispatching"]
    /\ UNCHANGED <<main_pc, globalVars, listings, call_name, call_args, call_resp,
                   resolved, result>>

\* the awaited call completes; call_tool renders the outcome
Respond(i, response) ==
    /\ pc[i] = "Dispatching"
    /\ call_resp' = [call_resp EXCEPT ![i] = response]
    /\ LET outcome == DispatchOutcome(response)
       IN  /\ pc' = [pc EXCEPT ![i] = IF outcome.raised THEN "RemoteCallError" ELSE "Success"]
           /\ result' = [result EXCEPT ![i] = CallToolResult(outcome)]
    /\ UNCHANGED <<main_pc, globalVars, listings, call_name, call_args, resolved, sent>>

\* the front end takes the payload; the handler's frame is gone
Return(i) ==
    /\ pc[i] \in Terminal
    /\ pc' = [pc EXCEPT ![i] = "Idle"]
    /\ call_name' = [call_name EXCEPT ![i] = NoneVal]
    /\ call_args' = [call_args EXCEPT ![i] = NoneVal]
    /\ call_resp' = [call_resp EXCEPT ![i] = NoneVal]
    /\ resolved' = [resolved EXCEPT ![i] = NoneVal]
    /\ sent' = [sent EXCEPT ![i] = << >>]
    /\ result' = [result EXCEPT ![i] = NoneVal]
    /\ UNCHANGED <<main_pc, globalVars, listings>>

Startup ==
    \/ AuthenticateOk
    \/ AuthenticateFails
    \/ InitializeApiClient
    \/ \E payload \in SpecPayloads : FetchOpenapiSpec(payload)
    \/ FetchFails

\* one call at a time
Next ==
    \/ Startup
    \/ ListTools(MaxListings)
    \/ \E name \in ToolNames, arguments \in ArgumentBags : CallTool(1, name, arguments)
    \/ Resolve(1)
    \/ Dispatch(1)
    \/ \E response \in Responses : Respond(1, response)
    \/ Return(1)

Spec == Init /\ [][Next]_vars

\* Inputs of the concurrent front end
ConcNames == {S_killBeacon, S_nosuch}
ConcBags == {B_id42, B_full}
ConcResponses == {R_jsonObj, R_500}

\* calls in flight together, their steps interleaved
NextConc ==
    \/ Startup
    \/ ListTools(1)
    \/ \E i \in Slots, name \in ConcNames, arguments \in ConcBags : CallTool(i, name, arguments)
    \/ \E i \in Slots : Resolve(i)
    \/ \E i \in Slots : Dispatch(i)
    \/ \E i \in Slots, response \in ConcResponses : Respond(i, response)
    \/ \E i \in Slots : Return(i)

SpecConc == Init /\ [][NextConc]_vars

-----------------------------------------------------------------------------
\* Properties

\* The paths of the loaded document, none when it has no paths key
DocPaths ==
    IF openapi_spec # NoneVal /\ "paths" \in DOMAIN openapi_spec
    THEN openapi_spec.paths
    ELSE << >>

\* The fixed method order the specification states
MethodOrder == <<"get", "post", "put", "delete", "patch">>

\* (path index, method rank) pairs present in the loaded document
PresentPairs ==
    {pr \in (1..Len(DocPaths)) \X (1..Len(MethodOrder)) :
        MethodOrder[pr[2]] \in DOMAIN DocPaths[pr[1]][2]}

PairLess(a, b) == a[1] < b[1] \/ (a[1] = b[1] /\ a[2] < b[2])

OperationAt(pr) == DocPaths[pr[1]][2][MethodOrder[pr[2]]]

\* The descriptor says, in its description, that it was derived from this pair
ToolAt(tool, pr) ==
    /\ tool.description[5] = C(DocPaths[pr[1]][1])
    /\ tool.description[3] = L(MethodUpper(MethodOrder[pr[2]]))

DeriveToolsShape(tools) ==
    /\ Len(tools) = Cardinality(PresentPairs)
    /\ \A j \in 1..Len(tools) : \E pr \in PresentPairs : ToolAt(tools[j], pr)
    /\ \A j1, j2 \in 1..Len(tools) :
          j1 < j2 => \E a, b \in PresentPairs :
                        ToolAt(tools[j1], a) /\ ToolAt(tools[j2], b) /\ PairLess(a, b)
    /\ ("paths" \notin DOMAIN openapi_spec => tools = << >>)

\* C4: every list_tools result holds exactly one descriptor per (path, method) pair
\* of the document with method among get, post, put, delete, patch, in path order
\* and within a path in that method order; all results for the document are the
\* same list, a document without a paths key gives the empty list, and the step
\* that derives the tools leaves the document as it was.
C4_DeriveToolsOrdered ==
    [][ /\ \A k \in 1..Len(listings') :
              DeriveToolsShape(listings'[k]) /\ listings'[k] = listings'[1]
        /\ (listings' # listings => openapi_spec' = openapi_spec) ]_vars

C4_Witness ==
    /\ Len(listings) = 2
    /\ Len(listings[2]) = 5
    /\ openapi_spec = DocEdge

\* path with every "/" turned into "_", character by character
Underscored(path) == [n \in 1..Len(path) |-> IF path[n] = "/" THEN "_" ELSE path[n]]

NamedByRule(tool, pr) ==
    LET operation == OperationAt(pr)
    IN  /\ "operationId" \in DOMAIN operation => tool.name = operation.operationId
        /\ "operationId" \notin DOMAIN operation =>
              tool.name = MethodChars(MethodOrder[pr[2]]) \o <<"_">>
                          \o Underscored(DocPaths[pr[1]][1])

IsGetBeaconsId(pr) ==
    /\ DocPaths[pr[1]][1] = S_beaconsId
    /\ MethodOrder[pr[2]] = "get"
    /\ "operationId" \notin DOMAIN OperationAt(pr)

\* C5 as stated: a tool's name is the operation identifier when the operation has
\* one, and otherwise the method, an underscore and the path with slashes replaced
\* by underscores; GET /beacons/{id} without identifier is named get__beacons__id_.
C5_ToolNamesAsClaimed ==
    \A k \in 1..Len(listings) : \A j \in 1..Len(listings[k]) : \A pr \in PresentPairs :
        ToolAt(listings[k][j], pr) =>
            /\ NamedByRule(listings[k][j], pr)
            /\ IsGetBeaconsId(pr) => listings[k][j].name = S_claimedGet

\* C5 amended: a tool's name is the operation identifier when the operation has
\* one, and otherwise the method, an underscore and the path with slashes replaced
\* by underscores, braces kept; GET /beacons/{id} without identifier is named
\* get__beacons_{id}.
C5_ToolNames ==
    \A k \in 1..Len(listings) : \A j \in 1..Len(listings[k]) : \A pr \in PresentPairs :
        ToolAt(listings[k][j], pr) =>
            /\ NamedByRule(listings[k][j], pr)
            /\ IsGetBeaconsId(pr) => listings[k][j].name = S_synthGet

C5_Witness ==
    /\ Len(listings) >= 1
    /\ \E j1, j2 \in 1..Len(listings[1]) :
          /\ listings[1][j1].name = S_synthGet
          /\ listings[1][j2].name = S_getTarget

\* Declared parameters and request body of an operation
ParamsOf(operation) == Get(operation, "parameters", << >>)
ParamNames(operation) == {ParamsOf(operation)[n].name : n \in 1..Len(ParamsOf(operation))}
TypeHint(param) == IF "schema" \in DOMAIN param /\ "type" \in DOMAIN param.schema
                   THEN param.schema.type ELSE "string"
IsRequired(x) == "required" \in DOMAIN x /\ x.required = TRUE
ContentOf(operation) ==
    IF "requestBody" \in DOMAIN operation /\ "content" \in DOMAIN operation.requestBody
    THEN operation.requestBody.content ELSE << >>
\* the body's content names a JSON media type
DeclaresJsonBody(operation) ==
    \E n \in 1..Len(ContentOf(operation)) : Contains(ContentOf(operation)[n][1], S_appJson)
\* content entries whose media type contains application/json and that carry a schema
JsonSchemaEntries(operation) ==
    {n \in 1..Len(ContentOf(operation)) :
        /\ Contains(ContentOf(operation)[n][1], S_appJson)
        /\ "schema" \in DOMAIN ContentOf(operation)[n][2]}
BodyRequired(operation) ==
    "requestBody" \in DOMAIN operation /\ IsRequired(operation.requestBody)
Elements(seq) == {seq[n] : n \in 1..Len(seq)}

SchemaAsClaimed(schema, operation) ==
    /\ schema.type = "object"
    /\ "properties" \in DOMAIN schema
    /\ DOMAIN schema.properties =
           ParamNames(operation)
           \cup (IF DeclaresJsonBody(operation) THEN {S_requestBody} ELSE {})
    /\ \A n \in 1..Len(ParamsOf(operation)) :
           LET param == ParamsOf(operation)[n]
           IN  param.name # S_requestBody =>
                  /\ param.name \in DOMAIN schema.properties
                  /\ schema.properties[param.name].type = TypeHint(param)
    /\ DeclaresJsonBody(operation) =>
           /\ S_requestBody \in DOMAIN schema.properties
           /\ schema.properties[S_requestBody].type = "object"
    /\ LET expected ==
               {ParamsOf(operation)[n].name :
                   n \in {m \in 1..Len(ParamsOf(operation)) : IsRequired(ParamsOf(operation)[m])}}
               \cup (IF BodyRequired(operation) THEN {S_requestBody} ELSE {})
       IN  IF expected = {} THEN "required" \notin DOMAIN schema
           ELSE "required" \in DOMAIN schema /\ Elements(schema.required) = expected

\* C6 as stated: properties has one entry per declared parameter plus requestBody
\* exactly when the body names a JSON media type; required holds the required
\* parameters plus requestBody exactly when the body is marked required.
C6_SchemaAsClaimed ==
    \A k \in 1..Len(listings) : \A j \in 1..Len(listings[k]) : \A pr \in PresentPairs :
        ToolAt(listings[k][j], pr) =>
            SchemaAsClaimed(listings[k][j].inputSchema, OperationAt(pr))

\* the last declared parameter of a name
LastParamNamed(operation, name) ==
    ParamsOf(operation)[CHOOSE n \in 1..Len(ParamsOf(operation)) :
        /\ ParamsOf(operation)[n].name = name
        /\ \A m \in (n + 1)..Len(ParamsOf(operation)) : ParamsOf(operation)[m].name # name]

RequiredParamNames(operation) ==
    LET required == SelectSeq(ParamsOf(operation), LAMBDA param : IsRequired(param))
    IN  [n \in 1..Len(required) |-> required[n].name]

SchemaAmended(schema, operation) ==
    LET jsonBody == JsonSchemaEntries(operation) # {}
        names == RequiredParamNames(operation)
        bodies == IF BodyRequired(operation) THEN Cardinality(JsonSchemaEntries(operation)) ELSE 0
    IN  /\ schema.type = "object"
        /\ "properties" \in DOMAIN schema
        /\ DOMAIN schema.properties =
               ParamNames(operation) \cup (IF jsonBody THEN {S_requestBody} ELSE {})
        /\ \A name \in DOMAIN schema.properties :
               schema.properties[name].type =
                   IF name = S_requestBody /\ jsonBody THEN "object"
                   ELSE TypeHint(LastParamNamed(operation, name))
        /\ IF Len(names) + bodies = 0 THEN "required" \notin DOMAIN schema
           ELSE /\ "required" \in DOMAIN schema
                /\ Len(schema.required) = Len(names) + bodies
                /\ \A n \in 1..Len(schema.required) :
                       schema.required[n] = IF n <= Len(names) THEN names[n] ELSE S_requestBody

\* C6 amended: the schema has type "object" and a properties map; properties has one
\* entry per distinct declared parameter name, typed by the last declaration of the
\* name ("string" without a hint), plus requestBody of type "object" exactly when a
\* content entry of the body has a media type containing application/json and a
\* schema; required lists the required parameters in declaration order, then
\* requestBody once per such entry when the body is marked required, and is absent
\* when empty.
C6_SchemaAmended ==
    \A k \in 1..Len(listings) : \A j \in 1..Len(listings[k]) : \A pr \in PresentPairs :
        ToolAt(listings[k][j], pr) =>
            SchemaAmended(listings[k][j].inputSchema, OperationAt(pr))

C6_Witness ==
    /\ Len(listings) >= 1
    /\ \E j1, j2, j3 \in 1..Len(listings[1]) :
          /\ listings[1][j1].name = S_move
          /\ S_requestBody \notin DOMAIN listings[1][j1].inputSchema.properties
          /\ listings[1][j1].inputSchema.properties[S_a].type = "integer"
          /\ listings[1][j2].name = S_edit
          /\ listings[1][j2].inputSchema.required = <<S_requestBody, S_requestBody>>
          /\ "required" \notin DOMAIN listings[1][j3].inputSchema

-----------------------------------------------------------------------------
\* Properties of a call

Sending == {"Dispatching", "Success", "RemoteCallError"}

\* operations of the loaded document carrying the identifier
PairsCarrying(operation_id) ==
    {pr \in PresentPairs :
        /\ "operationId" \in DOMAIN OperationAt(pr)
        /\ OperationAt(pr).operationId = operation_id}

\* the first of them in path order, then method order
FirstCarrying(operation_id) ==
    CHOOSE pr \in PairsCarrying(operation_id) :
        \A other \in PairsCarrying(operation_id) : other = pr \/ PairLess(pr, other)

ErrorText(i) == result[i][1].text

NotFoundText(operation_id) ==
    <<L("Error: "), L("Operation "), C(operation_id), L(" not found in OpenAPI spec")>>

\* C1: a finished call_tool has returned exactly one text payload, whatever the tool
\* name and the argument bag (None included); when the invocation failed the text is
\* "Error: " followed by the error's message; the server keeps serving and the call
\* can be handed back, leaving the bridge ready for the next one.
C1_AlwaysOneTextPayload ==
    \A i \in Slots :
        /\ pc[i] # "Idle" => main_pc = "serving"
        /\ pc[i] \in Terminal =>
              /\ Len(result[i]) = 1
              /\ result[i][1].type = "text"
              /\ ENABLED Return(i)
        /\ pc[i] = "NotInitialized" =>
              ErrorText(i) = <<L("Error: "), L("API client or OpenAPI spec not initialized")>>
        /\ pc[i] = "NotFound" => ErrorText(i) = NotFoundText(call_name[i])
        /\ pc[i] = "Crashed" => ErrorText(i) = <<L("Error: "), L("'"), L("paths"), L("'")>>
        /\ pc[i] = "RemoteCallError" =>
              /\ Len(ErrorText(i)) = 3
              /\ ErrorText(i)[1] = L("Error: ")
              /\ ErrorText(i)[2] = L("API call failed: ")
        /\ pc[i] = "Success" => Len(ErrorText(i)) = 1 /\ "chars" \in DOMAIN ErrorText(i)[1]

C1_Witness ==
    /\ pc[1] = "RemoteCallError"
    /\ call_args[1] = EmptyDict
    /\ call_resp[1] = R_timeout

\* C2 as stated: with a document loaded (its paths collection may be empty or
\* absent), a call whose identifier no operation carries ends in the
\* operation-not-found error naming the identifier, and sends no HTTP request.
C2_UnknownToolNotFound ==
    \A i \in Slots :
        (/\ pc[i] \in Terminal
         /\ Truthy(openapi_spec)
         /\ PairsCarrying(call_name[i]) = {})
        => /\ pc[i] = "NotFound"
           /\ ErrorText(i) = NotFoundText(call_name[i])
           /\ sent[i] = << >>

\* C3 as stated: once startup has completed, no call yields the not-initialized
\* error, whatever document the spec fetch accepted.
C3_NeverNotInitializedAfterStartup ==
    \A i \in Slots : main_pc = "serving" => pc[i] # "NotInitialized"

\* declared parameters of a location that the bag supplies
Supplied(operation, arguments, location) ==
    SelectSeq(ParamsOf(operation),
              LAMBDA param : /\ "in" \in DOMAIN param
                             /\ param.in = location
                             /\ param.name \in DOMAIN arguments)

\* the template with the placeholders of the names all replaced in one scan
RECURSIVE Substitute(_, _, _)
Substitute(template, names, arguments) ==
    IF template = << >> THEN << >>
    ELSE IF \E name \in names : IsPrefix(<<"{">> \o name \o <<"}">>, template)
         THEN LET name == CHOOSE nm \in names : IsPrefix(<<"{">> \o nm \o <<"}">>, template)
              IN  Str(arguments[name])
                  \o Substitute(SubSeq(template, Len(name) + 3, Len(template)), names, arguments)
         ELSE <<Head(template)>> \o Substitute(Tail(template), names, arguments)

\* the template after substituting the first n supplied path parameters, one by one
RECURSIVE SubstitutedInTurn(_, _, _, _)
SubstitutedInTurn(template, params, n, arguments) ==
    IF n = 0 THEN template
    ELSE Substitute(SubstitutedInTurn(template, params, n - 1, arguments),
                    {params[n].name}, arguments)

QueryOf(operation, arguments) ==
    LET supplied == Supplied(operation, arguments, "query")
    IN  [name \in {supplied[n].name : n \in 1..Len(supplied)} |-> arguments[name]]

KillExample(i) ==
    (resolved[i].path = S_beaconsIdKill /\ call_args[i] = B_id42)
        => sent[i][1].url = S_beacons42Kill

\* C7 as stated: the request goes to the path template with the placeholder of every
\* supplied path parameter replaced by that argument's stringified value; its query
\* set is exactly the supplied query parameters with their bag values; nothing is
\* rejected locally; a requestBody key of the bag becomes the outgoing body.
C7_RequestAsClaimed ==
    \A i \in Slots :
        pc[i] \in Sending =>
            LET operation == resolved[i].operation
                supplied == Supplied(operation, call_args[i], "path")
                request == sent[i][1]
            IN  /\ Len(sent[i]) = 1
                /\ request.url =
                       Substitute(resolved[i].path,
                                  {supplied[n].name : n \in 1..Len(supplied)}, call_args[i])
                /\ request.params = QueryOf(operation, call_args[i])
                /\ KillExample(i)
                /\ S_requestBody \in DOMAIN call_args[i] =>
                       /\ "json" \in DOMAIN request
                       /\ request.json = call_args[i][S_requestBody]

\* C7 amended: the request goes to the path template in which the placeholders of
\* the supplied path parameters are replaced, one parameter after the other in
\* declaration order, by the argument's stringified value (a value that contains a
\* later parameter's placeholder is substituted in turn); its query set is exactly
\* the supplied query parameters with their bag values; nothing is rejected
\* locally; for post, put and patch the value of a requestBody key of the bag is
\* passed as the JSON body whether or not the operation declares one, and for get
\* and delete no body is passed.
C7_RequestAmended ==
    \A i \in Slots :
        pc[i] \in Sending =>
            LET operation == resolved[i].operation
                supplied == Supplied(operation, call_args[i], "path")
                request == sent[i][1]
            IN  /\ Len(sent[i]) = 1
                /\ request.url =
                       SubstitutedInTurn(resolved[i].path, supplied, Len(supplied), call_args[i])
                /\ request.params = QueryOf(operation, call_args[i])
                /\ KillExample(i)
                /\ IF resolved[i].method \in {"post", "put", "patch"}
                   THEN /\ "json" \in DOMAIN request
                        /\ request.json = IF S_requestBody \in DOMAIN call_args[i]
                                          THEN call_args[i][S_requestBody] ELSE NoneVal
                   ELSE "json" \notin DOMAIN request

C7_Witness ==
    /\ pc[1] = "Dispatching"
    /\ call_name[1] = S_edit
    /\ "requestBody" \notin DOMAIN resolved[1].operation
    /\ sent[1][1].json = VDict

\* C8 as stated: a call moves Idle -> Resolving -> (NotFound | ParamBuilding ->
\* Dispatching -> (Success | RemoteCallError)); it sends no request unless an
\* operation carries the identifier and then exactly one, to the first such operation
\* in path order then method order, with that operation's method and a body only for
\* post, put and patch; a failed request ends the call, it is not sent again.
C8_OneRequestStateMachine ==
    \A i \in Slots :
        /\ pc[i] \in {"Idle", "NotInitialized", "Resolving", "NotFound", "ParamBuilding"}
                     \cup Sending
        /\ pc[i] \notin Sending => sent[i] = << >>
        /\ pc[i] = "NotFound" => PairsCarrying(call_name[i]) = {}
        /\ pc[i] \in {"ParamBuilding"} \cup Sending =>
              /\ PairsCarrying(call_name[i]) # {}
              /\ LET first == FirstCarrying(call_name[i])
                 IN  /\ resolved[i].path = DocPaths[first[1]][1]
                     /\ resolved[i].method = MethodOrder[first[2]]
        /\ pc[i] \in Sending =>
              /\ Len(sent[i]) = 1
              /\ sent[i][1].method = resolved[i].method
              /\ "json" \in DOMAIN sent[i][1] <=> resolved[i].method \in {"post", "put", "patch"}

\* C8 apart from the crash on a document without a paths key: every other call
\* keeps to the phases and sends as C8 says.
C8_ExceptCrash ==
    \A i \in Slots :
        pc[i] # "Crashed" =>
            /\ pc[i] \notin Sending => sent[i] = << >>
            /\ pc[i] = "NotFound" => PairsCarrying(call_name[i]) = {}
            /\ pc[i] \in {"ParamBuilding"} \cup Sending =>
                  /\ PairsCarrying(call_name[i]) # {}
                  /\ LET first == FirstCarrying(call_name[i])
                     IN  /\ resolved[i].path = DocPaths[first[1]][1]
                         /\ resolved[i].method = MethodOrder[first[2]]
            /\ pc[i] \in Sending =>
                  /\ Len(sent[i]) = 1
                  /\ sent[i][1].method = resolved[i].method
                  /\ "json" \in DOMAIN sent[i][1]
                         <=> resolved[i].method \in {"post", "put", "patch"}

\* C10 as stated: a call naming a tool that list_tools returned for the document
\* never ends in the operation-not-found error.
C10_ListedToolResolves ==
    \A i \in Slots :
        (\E k \in 1..Len(listings) : \E j \in 1..Len(listings[k]) :
            listings[k][j].name = call_name[i])
        => pc[i] # "NotFound"

-----------------------------------------------------------------------------
\* Concurrent calls

\* what a call makes of the document, its name, its arguments and its response when
\* nothing else runs
RequestAlone(document, name, arguments) ==
    LET found == FindOperation(document.paths, 1, name)
    IN  HttpRequest(found.method, BuildParams(found, arguments))

ResultAlone(document, name, arguments, response) ==
    IF ~Truthy(document) THEN CallToolResult(Raised(NotInitializedError))
    ELSE IF "paths" \notin DOMAIN document THEN CallToolResult(Raised(KeyError("paths")))
    ELSE IF FindOperation(document.paths, 1, name) = NoneVal
         THEN CallToolResult(Raised(OperationNotFoundError(name)))
         ELSE CallToolResult(DispatchOutcome(response))

AsAlone(i) ==
    /\ pc[i] \in Sending => sent[i] = <<RequestAlone(openapi_spec, call_name[i], call_args[i])>>
    /\ pc[i] \in Terminal =>
          result[i] = ResultAlone(openapi_spec, call_name[i], call_args[i], call_resp[i])

FrameOf(i) == <<call_name[i], call_args[i], call_resp[i], resolved[i], sent[i], result[i]>>

\* C9: while the server serves, no step of a call or of list_tools changes the
\* document, the token or the client; a step of one call leaves what the other calls
\* hold untouched; and under every interleaving the stepping call has sent the
\* request and returned the result it would alone, given the document, its name,
\* its arguments and its response.
C9_CallsIndependent ==
    [][ /\ main_pc = "serving" => globalVars' = globalVars
        /\ \A i \in Slots :
              IF pc'[i] = pc[i] THEN FrameOf(i)' = FrameOf(i) ELSE AsAlone(i)' ]_vars

C9_Witness ==
    /\ pc[1] = "Dispatching"
    /\ pc[2] = "Success"
    /\ call_name[1] = call_name[2]
    /\ call_args[1] # call_args[2]
    /\ sent[1] # sent[2]

====
